---- MODULE Spec2Model ----
(***************************************************************************)
(* A model of the argo-cloudops client-side contract layer:                *)
(*   - the operation client (package api): GetWorkflowStatus, GetWorkflows,*)
(*     GetLogs, StreamLogs, Diff, Sync, ExecuteWorkflow;                   *)
(*   - the request models and their validation (package requests);         *)
(*   - the validation helpers (package validations);                       *)
(*   - the environment of the service (package env): GetEnv.               *)
(*                                                                         *)
(* Strings are sequences of one-character strings, so that the format      *)
(* checks of the code (alphanumeric, length range, control bytes in a URL, *)
(* ARN prefix) are computed on the characters.                             *)
(***************************************************************************)
EXTENDS Integers, Sequences, FiniteSets, TLC

\* client        the Client: authToken, endpoint, httpClient
\* calls         per caller, the call of a Client method in progress: its
\*               position, operation, input, context, request, the reply received,
\*               the bytes written to the sink, the response and error returned
\* failedBefore  whether a call on the client has returned an error
\* vreq          the request whose Validate method is running
\* vchecks       the slice v of check functions handed to validations.Validate
\* vidx          the position of the loop of validations.Validate
\* vtrace        the checks called so far, each with the error it returned
\* verr, vpc     the error returned by Validate, and its position
\* environ       the environment of the process
\* instance      package env: the Vars held by the package
\* envErr        package env: the package's err variable
\* once          package env: the sync.Once, its done flag and its mutex
\* goroutines    per goroutine, the position of its GetEnv call and the values
\*               the call returned
\* processed     how often envconfig.Process has run (counted up to 2)
\* readEnviron   the environment envconfig.Process has read
\* returned      the pairs of Vars and error that GetEnv calls have returned
VARIABLES client, calls, failedBefore, vreq, vchecks, vidx, vtrace, verr, vpc,
          environ, instance, envErr, once, goroutines, processed, readEnviron, returned

vars == <<client, calls, failedBefore, vreq, vchecks, vidx, vtrace, verr, vpc,
          environ, instance, envErr, once, goroutines, processed, readEnviron, returned>>

envVars == <<environ, instance, envErr, once, goroutines, processed, readEnviron, returned>>

clientVars == <<client, calls, failedBefore>>

validationVars == <<vreq, vchecks, vidx, vtrace, verr, vpc>>

(***************************************************************************)
(* Characters and strings.                                                 *)
(***************************************************************************)
Letters == {"a", "b", "c", "d", "e", "f", "g", "h", "i", "k", "l", "m", "n",
            "o", "p", "r", "s", "t", "u", "v", "w", "x", "y", "A", "Z"}

Digits == {"0", "1", "2", "3", "8"}

\* The ASCII control bytes (0x00-0x1f, 0x7f); the model's strings use "\n".
ControlBytes == {"\n"}

RECURSIVE Repeat(_, _)
\* The string made of n copies of the character ch.
Repeat(ch, n) == IF n = 0 THEN <<>> ELSE <<ch>> \o Repeat(ch, n - 1)

\* strings.Count(s, ch) for a one-character ch.
Count(s, ch) == Cardinality({i \in 1..Len(s) : s[i] = ch})

\* strings.HasPrefix(s, p).
HasPrefix(s, p) == Len(s) >= Len(p) /\ SubSeq(s, 1, Len(p)) = p

(***************************************************************************)
(* Errors.  An error value carries its kind, the status code and response  *)
(* body it was formatted with (client errors) and its messages.            *)
(***************************************************************************)
\* No status code is part of the error.
NoCode == 0 - 1

NoBody == <<"<none>">>

Nil == [kind |-> "nil", code |-> NoCode, body |-> NoBody, msgs |-> <<>>]

\* errors.New(msg) / fmt.Errorf(msg) of the requests package.
ErrorsNew(msg) == [kind |-> "message", code |-> NoCode, body |-> NoBody, msgs |-> <<msg>>]

\* fmt.Errorf of the client: a kind, with the status code and body when the
\* format string has them.
ClientError(kind, code, body) == [kind |-> kind, code |-> code, body |-> body, msgs |-> <<>>]

(***************************************************************************)
(* package validations                                                     *)
(***************************************************************************)
\* govalidator "alphanum": ^[a-zA-Z0-9]+$
IsAlphanumeric(s) == Len(s) >= 1 /\ \A i \in 1..Len(s) : s[i] \in Letters \cup Digits

\* pattern ^([a-zA-Z])[a-zA-Z0-9_]*$
isAlphaNumbericUnderscore(s) ==
    /\ Len(s) >= 1
    /\ s[1] \in Letters
    /\ \A i \in 2..Len(s) : s[i] \in Letters \cup Digits \cup {"_"}

MinNameLength == 4

MaxNameLength == 32

\* govalidator "stringlength(min|max)".
StringLength(s, min, max) == Len(s) >= min /\ Len(s) <= max

\* arn.IsARN: the "arn:" prefix and at least 5 colons.
IsValidARN(s) == HasPrefix(s, <<"a", "r", "n", ":">>) /\ Count(s, ":") >= 5

\* The characters of a container image reference (lower-case repository
\* names, host, port, tag).
ReferenceChars == (Letters \ {"A", "Z"}) \cup Digits \cup {".", "/", ":", "-", "_"}

\* reference.ParseAnyReference succeeds: a non-empty reference made of
\* reference characters that neither starts nor ends with a separator.
IsValidImageURI(imageURI) ==
    /\ Len(imageURI) >= 1
    /\ \A i \in 1..Len(imageURI) : imageURI[i] \in ReferenceChars
    /\ imageURI[1] \in (Letters \ {"A", "Z"}) \cup Digits
    /\ imageURI[Len(imageURI)] \in (Letters \ {"A", "Z"}) \cup Digits

\* The characters of \w.
WordChars == Letters \cup Digits \cup {"_"}

\* The characters of [\w\.@\:/\-~].
GitPathChars == WordChars \cup {".", "@", ":", "/", "-", "~"}

\* s has lit at position i.
HasAt(s, i, lit) == i + Len(lit) - 1 <= Len(s) /\ SubSeq(s, i, i + Len(lit) - 1) = lit

\* isValidGitURI: the pattern
\* ((git|ssh|https)|(git@[\w\.]+))(:(//)?)([\w\.@\:/\-~]+)(\.git)(/)? matches
\* somewhere in s (the pattern has no anchors).  colon is the position of the
\* ":" after the scheme or the git@host, path the first position of the path,
\* dot the position of ".git".
isValidGitURI(s) ==
    \E colon \in 1..Len(s) : \E path \in {colon + 1, colon + 3} : \E dot \in 1..Len(s) :
        /\ s[colon] = ":"
        /\ \/ \E scheme \in {<<"g", "i", "t">>, <<"s", "s", "h">>, <<"h", "t", "t", "p", "s">>} :
                 colon > Len(scheme) /\ HasAt(s, colon - Len(scheme), scheme)
           \/ \E at \in 1..(colon - 1) :
                 /\ HasAt(s, at, <<"g", "i", "t", "@">>)
                 /\ at + 4 < colon
                 /\ \A i \in (at + 4)..(colon - 1) : s[i] \in WordChars \cup {"."}
        /\ path = colon + 3 => HasAt(s, colon + 1, <<"/", "/">>)
        /\ path < dot
        /\ \A i \in path..(dot - 1) : s[i] \in GitPathChars
        /\ HasAt(s, dot, <<".", "g", "i", "t">>)

\* One field of govalidator.ValidateStruct: an empty value is checked for
\* "required" only; a non-empty value must pass every validator of the tag.
\* checks is a sequence of <<passes, message>> pairs in tag order; the result is
\* the sequence of messages of the field (empty when the field is valid).
FieldErrors(s, required, requiredMsg, checks) ==
    IF s = <<>>
    THEN IF required THEN <<requiredMsg>> ELSE <<>>
    ELSE LET failing == {i \in 1..Len(checks) : ~checks[i][1]}
         IN IF failing = {} THEN <<>>
            ELSE <<checks[CHOOSE i \in failing : \A j \in failing : i <= j][2]>>

\* govalidator.ValidateStruct's error: the errors of all fields, nil when none.
StructError(msgs) ==
    IF msgs = <<>> THEN Nil
    ELSE [kind |-> "struct", code |-> NoCode, body |-> NoBody, msgs |-> msgs]

(***************************************************************************)
(* package requests: TargetOperation                                       *)
(***************************************************************************)
\* validations.ValidateStruct on TargetOperation: the valid tags of Path, SHA, Type.
TargetOperation_Validate(req) ==
    StructError(
        FieldErrors(req.Path, TRUE, "path is required", <<>>)
        \o FieldErrors(req.SHA, TRUE, "sha is required",
                       << <<IsAlphanumeric(req.SHA), "SHA does not validate as alphanum">> >>)
        \o FieldErrors(req.Type, TRUE, "type is required", <<>>))

(***************************************************************************)
(* package requests: CreateWorkflow and CreateTarget                       *)
(***************************************************************************)
\* validations.ValidateStruct on CreateWorkflow: the valid tags of ProjectName
\* and TargetName (neither is required).
CreateWorkflow_ValidateStruct(req) ==
    StructError(
        FieldErrors(req.ProjectName, FALSE, "",
                    << <<IsAlphanumeric(req.ProjectName), "project_name must be alphanumeric">>,
                       <<StringLength(req.ProjectName, MinNameLength, MaxNameLength),
                         "project_name must be between 4 and 32 characters">> >>)
        \o FieldErrors(req.TargetName, FALSE, "",
                    << <<isAlphaNumbericUnderscore(req.TargetName),
                         "target_name must be alphanumericunderscore">>,
                       <<StringLength(req.TargetName, MinNameLength, MaxNameLength),
                         "target_name must be between 4 and 32 characters">> >>))

ArgumentsError == ErrorsNew("arguments must be one of 'execute init'")

\* CreateWorkflow.validateArguments.
validateArguments(req) ==
    IF Cardinality(DOMAIN req.Arguments) = 0 THEN Nil
    ELSE IF Cardinality(DOMAIN req.Arguments) > 2 THEN ArgumentsError
    ELSE IF \E k \in DOMAIN req.Arguments : k # "execute" /\ k # "init" THEN ArgumentsError
    ELSE Nil

\* validateParameters without the check of pre_container_image_uri.
validateParametersExecuteOnly(req) ==
    IF "execute_container_image_uri" \notin DOMAIN req.Parameters
    THEN ErrorsNew("parameter execute_container_image_uri is required")
    ELSE IF ~IsValidImageURI(req.Parameters["execute_container_image_uri"])
    THEN ErrorsNew("parameter execute_container_image_uri must be a valid container uri")
    ELSE Nil

\* CreateWorkflow.validateParameters.
validateParameters(req) ==
    IF "execute_container_image_uri" \notin DOMAIN req.Parameters
    THEN ErrorsNew("parameter execute_container_image_uri is required")
    ELSE IF ~IsValidImageURI(req.Parameters["execute_container_image_uri"])
    THEN ErrorsNew("parameter execute_container_image_uri must be a valid container uri")
    ELSE IF /\ "pre_container_image_uri" \in DOMAIN req.Parameters
            /\ ~IsValidImageURI(req.Parameters["pre_container_image_uri"])
    THEN ErrorsNew("parameter pre_container_image_uri must be a valid container uri")
    ELSE Nil

\* The types a caller passes to ValidateType.
AllowedTypes == <<"diff", "sync">>

\* CreateWorkflow.ValidateType(types)().
ValidateType(req, types) ==
    IF \E i \in 1..Len(types) : req.Type = types[i] THEN Nil
    ELSE ErrorsNew("type must be one of the types")

\* validations.ValidateStruct on CreateTarget: the valid tag of Name.
CreateTarget_ValidateStruct(req) ==
    StructError(
        FieldErrors(req.Name, TRUE, "name is required",
                    << <<isAlphaNumbericUnderscore(req.Name),
                         "name must be alphanumeric underscore">>,
                       <<StringLength(req.Name, MinNameLength, MaxNameLength),
                         "name must be between 4 and 32 characters">> >>))

(***************************************************************************)
(* package requests: CreateProject                                         *)
(***************************************************************************)
\* CreateProject.Validate: validations.ValidateStruct on the valid tags of
\* Name (not required) and Repository (required).
CreateProject_Validate(req) ==
    StructError(
        FieldErrors(req.Name, FALSE, "",
                    << <<IsAlphanumeric(req.Name), "name must be alphanumeric">>,
                       <<StringLength(req.Name, MinNameLength, MaxNameLength),
                         "name must be between 4 and 32 characters">> >>)
        \o FieldErrors(req.Repository, TRUE, "repository: non zero value required",
                       << <<isValidGitURI(req.Repository), "repository must be a git uri">> >>))

\* The most policy ARNs a target may have.
MaxPolicyArns == 5

\* validateTargetProperties with the count checked after the ARNs of the list.
validateTargetPropertiesCountLast(req) ==
    IF req.Properties.CredentialType # "vault"
    THEN ErrorsNew("credential_type must be one of 'vault'")
    ELSE IF ~IsValidARN(req.Properties.RoleArn)
    THEN ErrorsNew("role_arn must be a valid arn")
    ELSE IF \E i \in 1..Len(req.Properties.PolicyArns) : ~IsValidARN(req.Properties.PolicyArns[i])
    THEN ErrorsNew("policy_arns contains an invalid arn")
    ELSE IF Len(req.Properties.PolicyArns) > 5
    THEN ErrorsNew("policy_arns cannot be more than 5")
    ELSE Nil

\* CreateTarget.validateTargetProperties.
validateTargetProperties(req) ==
    IF req.Properties.CredentialType # "vault"
    THEN ErrorsNew("credential_type must be one of 'vault'")
    ELSE IF ~IsValidARN(req.Properties.RoleArn)
    THEN ErrorsNew("role_arn must be a valid arn")
    ELSE IF Len(req.Properties.PolicyArns) > MaxPolicyArns
    THEN ErrorsNew("policy_arns cannot be more than 5")
    ELSE IF \E i \in 1..Len(req.Properties.PolicyArns) : ~IsValidARN(req.Properties.PolicyArns[i])
    THEN ErrorsNew("policy_arns contains an invalid arn")
    ELSE Nil

TargetTypeError == ErrorsNew("type must be one of 'aws_account'")

\* The check functions by name: the closures of the v slices.
RunCheck(name, req) ==
    CASE name = "ValidateStruct" ->
            IF req.kind = "CreateWorkflow" THEN CreateWorkflow_ValidateStruct(req)
            ELSE CreateTarget_ValidateStruct(req)
      [] name = "validateArguments" -> validateArguments(req)
      [] name = "validateParameters" -> validateParameters(req)
      [] name = "ValidateType" -> ValidateType(req, AllowedTypes)
      [] name = "validateTargetProperties" -> validateTargetProperties(req)

\* The v slice with the parameters checked before the arguments.
CreateWorkflow_ChecksSwapped(optionalValidations) ==
    <<"ValidateStruct", "validateParameters", "validateArguments">> \o optionalValidations

\* The v slice of CreateWorkflow.Validate, with the caller's optional validations.
CreateWorkflow_Checks(optionalValidations) ==
    <<"ValidateStruct", "validateArguments", "validateParameters">> \o optionalValidations

\* The v slice of CreateTarget.Validate.
CreateTarget_Checks == <<"ValidateStruct", "validateTargetProperties">>

(***************************************************************************)
(* package api: the operation client                                       *)
(***************************************************************************)
\* Two callers share one Client, so that calls interleave.
Callers == {"c1", "c2"}

ReadOps == {"GetWorkflowStatus", "GetWorkflows", "GetLogs", "StreamLogs"}

TargetOps == {"Diff", "Sync"}

WriteOps == TargetOps \cup {"ExecuteWorkflow"}

Ops == ReadOps \cup WriteOps

\* The constants diff and sync.
OperationType(op) == IF op = "Diff" THEN <<"d", "i", "f", "f">> ELSE <<"s", "y", "n", "c">>

\* Sample strings of the inputs.
GoodName == <<"w", "f", "1">>

\* A name with a control byte: url parsing rejects it.
CtlName == <<"w", "f", "\n">>

Names == {GoodName, CtlName}

SamplePaths == {<<>>, <<"i", "n", "f", "r", "a", "/">>}

SampleSHAs == {<<>>, <<"a", "b", "c", "1", "2", "3">>, <<"a", "b", "-", "1">>}

GoodEndpoint == <<"h", "t", "t", "p", "s", ":", "/", "/", "h", ":", "8">>

\* An endpoint no url can be made of.
BadEndpoint == <<"h", "\n">>

Endpoints == {GoodEndpoint, BadEndpoint}

AuthToken == <<"s", "e", "c", "r", "e", "t">>

\* The ExecuteWorkflow inputs: one that CreateWorkflow validation accepts, one
\* without execute_container_image_uri, one with a bad arguments key.
GoodImage == <<"a", "/", "b", ":", "1">>

ExecuteInputs ==
    { [Arguments |-> [k \in {"execute", "init"} |-> <<"x">>],
       Parameters |-> [k \in {"execute_container_image_uri"} |-> GoodImage],
       ProjectName |-> <<"p", "r", "o", "j">>, TargetName |-> <<"t", "a", "r", "g">>,
       Type |-> "sync"],
      [Arguments |-> [k \in {"extra"} |-> <<"x">>],
       Parameters |-> [k \in {} |-> GoodImage],
       ProjectName |-> <<"p", "r", "o", "j">>, TargetName |-> <<"t", "a", "r", "g">>,
       Type |-> "sync"] }

NoPayload == [Arguments |-> [k \in {} |-> <<"x">>], Parameters |-> [k \in {} |-> GoodImage],
              ProjectName |-> <<>>, TargetName |-> <<>>, Type |-> ""]

\* The inputs of a call of op: the workflow or project name, the target name,
\* the path and sha of a TargetOperationInput, the ExecuteWorkflow input.
Inputs(op) ==
    IF op \in TargetOps
    THEN [name : Names, target : {GoodName}, path : SamplePaths, sha : SampleSHAs,
          payload : {NoPayload}]
    ELSE IF op = "ExecuteWorkflow"
    THEN [name : {<<>>}, target : {<<>>}, path : {<<>>}, sha : {<<>>}, payload : ExecuteInputs]
    ELSE [name : Names, target : IF op = "GetWorkflows" THEN {GoodName} ELSE {<<>>},
          path : {<<>>}, sha : {<<>>}, payload : {NoPayload}]

NoInput == [name |-> <<>>, target |-> <<>>, path |-> <<>>, sha |-> <<>>, payload |-> NoPayload]

Slash == <<"/">>

SegWorkflows == <<"w", "o", "r", "k", "f", "l", "o", "w", "s">>

SegProjects == <<"p", "r", "o", "j", "e", "c", "t", "s">>

SegTargets == <<"t", "a", "r", "g", "e", "t", "s">>

SegOperations == <<"o", "p", "e", "r", "a", "t", "i", "o", "n", "s">>

SegLogs == <<"l", "o", "g", "s">>

SegLogstream == <<"l", "o", "g", "s", "t", "r", "e", "a", "m">>

\* The fmt.Sprintf of each operation's url.
URL(op, input, endpoint) ==
    CASE op = "GetWorkflowStatus" -> endpoint \o Slash \o SegWorkflows \o Slash \o input.name
      [] op = "GetLogs" ->
            endpoint \o Slash \o SegWorkflows \o Slash \o input.name \o Slash \o SegLogs
      [] op = "StreamLogs" ->
            endpoint \o Slash \o SegWorkflows \o Slash \o input.name \o Slash \o SegLogstream
      [] op = "GetWorkflows" ->
            endpoint \o Slash \o SegProjects \o Slash \o input.name \o Slash \o SegTargets
                     \o Slash \o input.target \o Slash \o SegWorkflows
      [] op \in TargetOps ->
            endpoint \o Slash \o SegProjects \o Slash \o input.name \o Slash \o SegTargets
                     \o Slash \o input.target \o Slash \o SegOperations
      [] op = "ExecuteWorkflow" -> endpoint \o Slash \o SegWorkflows

Method(op) == IF op \in WriteOps THEN "POST" ELSE "GET"

\* requests.TargetOperation built by targetOperation from its input.
TargetReq(op, input) == [Path |-> input.path, SHA |-> input.sha, Type |-> OperationType(op)]

\* json.Marshal of the request body: the JSON object as its key/value pairs in
\* field order; nil for the GET operations.
NilBody == <<>>

RequestBody(op, input) ==
    IF op \in TargetOps
    THEN LET r == TargetReq(op, input)
         IN << <<"path", r.Path>>, <<"sha", r.SHA>>, <<"type", r.Type>> >>
    ELSE IF op = "ExecuteWorkflow"
    THEN << <<"arguments", input.payload.Arguments>>, <<"parameters", input.payload.Parameters>>,
            <<"project_name", input.payload.ProjectName>>,
            <<"target_name", input.payload.TargetName>>, <<"type", input.payload.Type>> >>
    ELSE NilBody

\* http.NewRequestWithContext fails when the url does not parse: a control
\* byte in the url.  (The context is not inspected here.)
URLParses(url) == \A i \in 1..Len(url) : url[i] \notin ControlBytes

NoHeader == <<"<no header>">>

\* The header sent with a scheme prefix instead of the token verbatim.
AuthHeaderWithScheme(op, cl) ==
    IF op \in WriteOps THEN <<"B", "e", "a", "r", "e", "r", " ">> \o cl.authToken ELSE NoHeader

\* req.Header.Add("Authorization", c.authToken): done by targetOperation and
\* ExecuteWorkflow only; getRequest and StreamLogs add no header.
AuthHeader(op, cl) == IF op \in WriteOps THEN cl.authToken ELSE NoHeader

\* The validation left out: every request is sent as it is.
ValidationErrorSkipped(op, input) == Nil

\* ExecuteWorkflow validating the arguments and parameters of its input too.
ValidationErrorAlsoExecute(op, input) ==
    IF op \in TargetOps THEN TargetOperation_Validate(TargetReq(op, input))
    ELSE IF op = "ExecuteWorkflow" /\ validateArguments(input.payload) # Nil
    THEN validateArguments(input.payload)
    ELSE IF op = "ExecuteWorkflow" THEN validateParameters(input.payload)
    ELSE Nil

\* Diff and Sync validate the request before anything else; the other
\* operations, ExecuteWorkflow among them, validate nothing.
ValidationError(op, input) ==
    IF op \in TargetOps THEN TargetOperation_Validate(TargetReq(op, input)) ELSE Nil

StatusOK == 200

\* The upper limit of the write operations off by one.
SuccessStatusUpTo300(op, status) ==
    IF op \in WriteOps THEN ~(status > 300 \/ status < 200) ELSE status = StatusOK

\* The status check of each operation.
SuccessStatus(op, status) ==
    IF op \in WriteOps THEN ~(status >= 300 \/ status < 200) ELSE status = StatusOK

\* json.Unmarshal into the operation's response type.  A body is a sequence of
\* tokens; an object is "{" ... "}", an array is "[" ... "]".  GetWorkflows
\* decodes into a list, the others into a struct.  A body of the wrong shape
\* leaves the output untouched; a value of the wrong type inside a body of the
\* right shape is an error too, but the values around it are stored in the
\* output all the same.
ZeroResponse == <<>>

\* A value whose type does not fit the field it is decoded into.
MistypedValue == "!"

Unmarshal(op, body) ==
    LET open == IF op = "GetWorkflows" THEN "[" ELSE "{"
        close == IF op = "GetWorkflows" THEN "]" ELSE "}"
        inner == SubSeq(body, 2, Len(body) - 1)
    IN IF Len(body) >= 2 /\ body[1] = open /\ body[Len(body)] = close
       THEN [ok |-> \A i \in 1..Len(inner) : inner[i] # MistypedValue,
             value |-> SelectSeq(inner, LAMBDA t : t # MistypedValue)]
       ELSE [ok |-> FALSE, value |-> ZeroResponse]

\* What the transport may reply.
Statuses == {199, 200, 299, 300, 404}

Bodies == { <<"{", "wf-1", "}">>, <<"[", "wf-1", "]">>, <<"oops">>,
            <<"{", "wf-1", MistypedValue, "}">> }

StreamChunks == {"l1", "l2"}

\* The longest log stream body, in chunks.
MaxBody == 2

NoRequest == [method |-> "", url |-> <<>>, auth |-> NoHeader, body |-> NilBody]

IdleCall == [pc |-> "idle", op |-> "none", input |-> NoInput, req |-> NoRequest, sent |-> 0,
             status |-> NoCode, body |-> NoBody, resp |-> ZeroResponse, err |-> Nil,
             sink |-> <<>>, readEnd |-> "none", ctx |-> "live"]

\* A return statement of the call: the response and the error.  (readEnd
\* records how the transport ended the body: "eof" or "error".)
Returned(call, resp, err) == [call EXCEPT !.pc = "done", !.resp = resp, !.err = err]

(***************************************************************************)
(* package env: the environment variables of the service                   *)
(***************************************************************************)
\* The goroutines that call GetEnv.
Goroutines == {"g1", "g2", "g3"}

\* An environment variable that is not set.
Unset == <<"<unset>">>

\* The shortest admin secret that validate accepts.
MinAdminSecretLength == 16

\* The values ARGO_CLOUDOPS_ADMIN_SECRET may have: not set, set to the empty
\* string, one character too short, just long enough.
AdminSecrets ==
    {Unset, <<>>, Repeat("s", MinAdminSecretLength - 1), Repeat("s", MinAdminSecretLength)}

\* The environments of the process: the admin secret, and whether the other
\* required variables (VAULT_ROLE ... ARGO_CLOUDOPS_DB_NAME) are all set.
Environments == [AdminSecret : AdminSecrets, Others : BOOLEAN]

\* The environment with nothing set.
EmptyEnvironment == [AdminSecret |-> Unset, Others |-> FALSE]

\* The zero Vars.
ZeroVars == [AdminSecret |-> <<>>, Others |-> FALSE]

\* envconfig.Process(appPrefix, &instance): the fields are filled in the order
\* of the struct and the first required variable that is not set ends the
\* processing with an error, the fields before it staying filled.
Process(env, spec) ==
    IF env.AdminSecret = Unset
    THEN [spec |-> spec,
          err |-> ErrorsNew("required key ARGO_CLOUDOPS_ADMIN_SECRET missing value")]
    ELSE IF ~env.Others
    THEN [spec |-> [spec EXCEPT !.AdminSecret = env.AdminSecret],
          err |-> ErrorsNew("required key VAULT_ROLE missing value")]
    ELSE [spec |-> [AdminSecret |-> env.AdminSecret, Others |-> TRUE], err |-> Nil]

\* Vars.validate.
validate(values) ==
    IF Len(values.AdminSecret) < MinAdminSecretLength
    THEN ErrorsNew("admin secret must be at least 16 characers long")
    ELSE Nil

\* A Once that runs f on every call.
OnceNotDoneAlways(o) == TRUE

\* sync.Once: o.done.Load() == 0, on the fast path of Do and again under the
\* mutex.
OnceNotDone(o) == ~o.done

NewOnce == [done |-> FALSE, m |-> "unlocked"]

IdleGoroutine == [pc |-> "idle", vars |-> ZeroVars, err |-> Nil]

(***************************************************************************)
(* The state after construction: NewClient's Client, no call in progress,  *)
(* no validation in progress, the package env not initialised.             *)
(***************************************************************************)
NoValidation == [kind |-> "none"]

NewClient(endpoint, authToken) ==
    [authToken |-> authToken, endpoint |-> endpoint, httpClient |-> "transport"]

Init ==
    /\ \E endpoint \in Endpoints : client = NewClient(endpoint, AuthToken)
    /\ calls = [c \in Callers |-> IdleCall]
    /\ failedBefore = FALSE
    /\ vreq = NoValidation
    /\ vchecks = <<>>
    /\ vidx = 0
    /\ vtrace = <<>>
    /\ verr = Nil
    /\ vpc = "idle"
    /\ environ = EmptyEnvironment
    /\ instance = ZeroVars
    /\ envErr = Nil
    /\ once = NewOnce
    /\ goroutines = [g \in Goroutines |-> IdleGoroutine]
    /\ processed = 0
    /\ readEnviron = EmptyEnvironment
    /\ returned = {}

(***************************************************************************)
(* The steps of one call.                                                  *)
(***************************************************************************)
\* A caller invokes an operation of the client, with a context that is live
\* or already cancelled.
Begin(c) ==
    /\ calls[c].pc = "idle"
    /\ \E op \in Ops : \E input \in Inputs(op) : \E ctx \in {"live", "cancelled"} :
          calls' = [calls EXCEPT ![c] = [IdleCall EXCEPT !.pc = "validate", !.op = op,
                                                         !.input = input, !.ctx = ctx]]
    /\ UNCHANGED <<client, failedBefore, validationVars, envVars>>

\* targetOperation: targetReq.Validate(), returning its error unwrapped.  The
\* other operations have no such step.
ValidateTargetReq(c) ==
    /\ calls[c].pc = "validate"
    /\ LET call == calls[c]
           err == ValidationError(call.op, call.input)
       IN calls' = [calls EXCEPT ![c] =
                       IF err # Nil THEN Returned(call, ZeroResponse, err)
                       ELSE [call EXCEPT !.pc = "build"]]
    /\ UNCHANGED <<client, failedBefore, validationVars, envVars>>

\* json.Marshal, http.NewRequestWithContext and the Authorization header.
BuildRequest(c) ==
    /\ calls[c].pc = "build"
    /\ LET call == calls[c]
           url == URL(call.op, call.input, client.endpoint)
       IN calls' = [calls EXCEPT ![c] =
                       IF ~URLParses(url)
                       THEN Returned(call, ZeroResponse,
                                     ClientError("create_request", NoCode, NoBody))
                       ELSE [call EXCEPT !.pc = "send",
                                         !.req = [method |-> Method(call.op), url |-> url,
                                                  auth |-> AuthHeader(call.op, client),
                                                  body |-> RequestBody(call.op, call.input)]]]
    /\ UNCHANGED <<client, failedBefore, validationVars, envVars>>

\* The call after the response headers arrived with the status.
Answered(call, status) ==
    [call EXCEPT !.status = status,
                 !.pc = IF call.op = "StreamLogs" THEN "status" ELSE "read",
                 !.body = IF call.op = "StreamLogs" THEN <<>> ELSE NoBody]

\* The call after Do returned an error: the transport failed, or the context
\* was cancelled while the request was in flight.
TransportFailures(call) ==
    {Returned([call EXCEPT !.ctx = ctx], ZeroResponse, ClientError("api_call", NoCode, NoBody)) :
        ctx \in IF call.ctx = "live" THEN {"live", "cancelled_in_flight"} ELSE {call.ctx}}

\* A transport that answers whatever the context is.
MayAnswerAlways(call) == TRUE

\* The transport answers only under a context that is not cancelled: Do
\* returns the context's error otherwise.
MayAnswer(call) == call.ctx = "live"

\* Do with one retry after a transport failure.
DoRetries(c) ==
    /\ calls[c].pc = "send"
    /\ LET call == [calls[c] EXCEPT !.sent = @ + 1]
       IN \/ \E failed \in TransportFailures(call) :
                calls' = [calls EXCEPT ![c] = IF call.sent < 2 THEN call ELSE failed]
          \/ /\ MayAnswer(call)
             /\ \E status \in Statuses : calls' = [calls EXCEPT ![c] = Answered(call, status)]
    /\ UNCHANGED <<client, failedBefore, validationVars, envVars>>

\* Do that drops the client's token when the transport fails.
DoDropsToken(c) ==
    /\ calls[c].pc = "send"
    /\ LET call == [calls[c] EXCEPT !.sent = @ + 1]
       IN \/ /\ \E failed \in TransportFailures(call) : calls' = [calls EXCEPT ![c] = failed]
             /\ client' = [client EXCEPT !.authToken = <<>>]
          \/ /\ MayAnswer(call)
             /\ \E status \in Statuses : calls' = [calls EXCEPT ![c] = Answered(call, status)]
             /\ UNCHANGED client
    /\ UNCHANGED <<failedBefore, validationVars, envVars>>

\* c.httpClient.Do(req): the transport fails or the context is cancelled, or
\* the transport answers with a status.
Do(c) ==
    /\ calls[c].pc = "send"
    /\ LET call == [calls[c] EXCEPT !.sent = @ + 1]
       IN \/ \E failed \in TransportFailures(call) : calls' = [calls EXCEPT ![c] = failed]
          \/ /\ MayAnswer(call)
             /\ \E status \in Statuses : calls' = [calls EXCEPT ![c] = Answered(call, status)]
    /\ UNCHANGED <<client, failedBefore, validationVars, envVars>>

\* io.ReadAll(resp.Body): the whole body, or a read error.
ReadAll(c) ==
    /\ calls[c].pc = "read"
    /\ LET call == calls[c]
       IN \/ calls' = [calls EXCEPT ![c] =
                          Returned([call EXCEPT !.readEnd = "error"], ZeroResponse,
                                   ClientError("read_body", call.status, NoBody))]
          \/ \E body \in Bodies :
                calls' = [calls EXCEPT ![c] = [call EXCEPT !.body = body, !.readEnd = "eof",
                                                          !.pc = "status"]]
    /\ UNCHANGED <<client, failedBefore, validationVars, envVars>>

\* The body left out of every unexpected-status error.
UnexpectedStatusNoBody(call) == ClientError("unexpected_status", call.status, NoBody)

\* The error of an unexpected status: StreamLogs formats the code only, the
\* others the code and the body.
UnexpectedStatus(call) ==
    ClientError("unexpected_status", call.status,
                IF call.op = "StreamLogs" THEN NoBody ELSE call.body)

\* The status check: after the body is read, but in StreamLogs before it.
CheckStatus(c) ==
    /\ calls[c].pc = "status"
    /\ LET call == calls[c]
       IN calls' = [calls EXCEPT ![c] =
                       IF ~SuccessStatus(call.op, call.status)
                       THEN Returned(call, ZeroResponse, UnexpectedStatus(call))
                       ELSE [call EXCEPT !.pc = IF call.op = "StreamLogs" THEN "copy"
                                                ELSE "decode"]]
    /\ UNCHANGED <<client, failedBefore, validationVars, envVars>>

\* Decode that returns the output as far as it was filled with the error.
DecodeReturnsOutput(c) ==
    /\ calls[c].pc = "decode"
    /\ LET call == calls[c]
           out == Unmarshal(call.op, call.body)
       IN calls' = [calls EXCEPT ![c] =
                       IF ~out.ok
                       THEN Returned(call, out.value, ClientError("parse", NoCode, NoBody))
                       ELSE Returned(call, out.value, Nil)]
    /\ UNCHANGED <<client, failedBefore, validationVars, envVars>>

\* json.Unmarshal(body, &output) and the final return: the zero response with
\* the error, the output without.
Decode(c) ==
    /\ calls[c].pc = "decode"
    /\ LET call == calls[c]
           out == Unmarshal(call.op, call.body)
       IN calls' = [calls EXCEPT ![c] =
                       IF ~out.ok
                       THEN Returned(call, ZeroResponse, ClientError("parse", NoCode, NoBody))
                       ELSE Returned(call, out.value, Nil)]
    /\ UNCHANGED <<client, failedBefore, validationVars, envVars>>

\* A write that loses the chunk.
WriteLost(sink, chunk) == sink

\* The sink's Write: the chunk is appended to what the sink holds.  (The sink
\* is a buffer: its Write accepts every chunk.)
Write(sink, chunk) == Append(sink, chunk)

\* io.Copy, one chunk: the transport delivers a chunk and it is written to w.
CopyChunk(c) ==
    /\ calls[c].pc = "copy"
    /\ Len(calls[c].body) < MaxBody
    /\ \E chunk \in StreamChunks :
          calls' = [calls EXCEPT ![c] = [@ EXCEPT !.body = Append(@, chunk),
                                                  !.sink = Write(@, chunk)]]
    /\ UNCHANGED <<client, failedBefore, validationVars, envVars>>

\* io.Copy ends at the end of the body; the second status check of StreamLogs
\* follows, and the return of nil.
CopyEOF(c) ==
    /\ calls[c].pc = "copy"
    /\ LET call == [calls[c] EXCEPT !.readEnd = "eof"]
       IN calls' = [calls EXCEPT ![c] =
                       IF call.status # StatusOK
                       THEN Returned(call, ZeroResponse, UnexpectedStatus(call))
                       ELSE Returned(call, ZeroResponse, Nil)]
    /\ UNCHANGED <<client, failedBefore, validationVars, envVars>>

\* io.Copy fails: the body read breaks mid-stream.
CopyError(c) ==
    /\ calls[c].pc = "copy"
    /\ calls' = [calls EXCEPT ![c] =
                    Returned([@ EXCEPT !.readEnd = "error"], ZeroResponse,
                             ClientError("read_body", @.status, NoBody))]
    /\ UNCHANGED <<client, failedBefore, validationVars, envVars>>

\* The caller takes the result; it may call again.
Return(c) ==
    /\ calls[c].pc = "done"
    /\ calls' = [calls EXCEPT ![c] = IdleCall]
    /\ failedBefore' = (failedBefore \/ calls[c].err # Nil)
    /\ UNCHANGED <<client, validationVars, envVars>>

Next ==
    \E c \in Callers :
        \/ Begin(c)
        \/ ValidateTargetReq(c)
        \/ BuildRequest(c)
        \/ Do(c)
        \/ ReadAll(c)
        \/ CheckStatus(c)
        \/ Decode(c)
        \/ CopyChunk(c)
        \/ CopyEOF(c)
        \/ CopyError(c)
        \/ Return(c)

Spec == Init /\ [][Next]_vars

(***************************************************************************)
(* Validation of requests: the requests a caller may validate, and the     *)
(* loop of validations.Validate, one check per step.                       *)
(***************************************************************************)
ValidArn == <<"a", "r", "n", ":", "a", ":", "s", ":", ":", "1", ":", "r">>

\* The prefix is there, the colons are not.
ShortArn == <<"a", "r", "n", ":", "s", "3">>

\* The colons are there, the prefix is not.
NotArn == <<"u", "r", "n", ":", "a", ":", "s", ":", ":", "1", ":", "r">>

SampleArns == {ValidArn, ShortArn}

\* The longest policy_arns list of the model: one more than the code allows.
MaxPolicyCount == 6

SeqsUpTo(S, n) == UNION {[1..k -> S] : k \in 0..n}

\* An upper-case repository name is no reference.
UpperImage == <<"A", "/", "b">>

SampleImages == {GoodImage, UpperImage, <<"n", "o", "t", " ", "a", " ", "u", "r", "i">>}

ParameterKeys == {"execute_container_image_uri", "pre_container_image_uri"}

ArgumentKeys == {"execute", "init", "extra"}

\* Maps with keys among K and values among V.
Maps(K, V) == UNION {[D -> V] : D \in SUBSET K}

SampleProjectNames == {<<>>, Repeat("a", 3), Repeat("a", 4), <<"a", "b", "-", "d">>}

SampleTargetNames == {Repeat("a", 4), <<"1", "a", "b", "c">>}

SampleNames == {<<>>, Repeat("a", 3), <<"a", "_", "b", "1">>, <<"a", "b", "-", "d">>}

CreateWorkflowRequests ==
    [kind : {"CreateWorkflow"},
     Arguments : Maps(ArgumentKeys, {<<"x">>}),
     Parameters : Maps(ParameterKeys, SampleImages),
     ProjectName : SampleProjectNames,
     TargetName : SampleTargetNames,
     Type : {"diff", "bogus"}]

\* The longest name of the names sampled by length.
MaxSampleLength == 33

\* One alphanumeric name of every length up to MaxSampleLength.
LengthNames == {Repeat("a", n) : n \in 0..MaxSampleLength}

\* CreateWorkflow requests with all but the names valid.
LengthWorkflowRequests ==
    [kind : {"CreateWorkflow"},
     Arguments : {[k \in {} |-> <<"x">>]},
     Parameters : {[k \in {"execute_container_image_uri"} |-> GoodImage]},
     ProjectName : LengthNames,
     TargetName : LengthNames,
     Type : {"diff"}]

GoodRepository == <<"h", "t", "t", "p", "s", ":", "/", "/", "h", "/", "r", ".", "g", "i", "t">>

SshRepository == <<"g", "i", "t", "@", "h", ".", "i", "o", ":", "r", ".", "g", "i", "t">>

SampleRepositories == {GoodRepository, SshRepository, <<>>, <<"h", "t", "t", "p", "s", ":", "/", "/", "h", "/", "r">>, <<"f", "t", "p", ":", "r", ".", "g", "i", "t">>, <<"g", "i", "t", "@", ":", "r", ".", "g", "i", "t">>}

CreateProjectRequests ==
    [kind : {"CreateProject"},
     Name : LengthNames \cup SampleProjectNames,
     Repository : SampleRepositories]

\* CreateTarget requests with all but the name valid.
LengthTargetRequests ==
    [kind : {"CreateTarget"},
     Name : LengthNames,
     Type : {"aws_account"},
     Properties : [CredentialType : {"vault"}, RoleArn : {ValidArn}, PolicyArns : {<<ValidArn>>}]]

CreateTargetRequests ==
    [kind : {"CreateTarget"},
     Name : SampleNames,
     Type : {"aws_account", "gcp_project"},
     Properties : [CredentialType : {"vault", "file"},
                   RoleArn : {ValidArn, ShortArn, NotArn},
                   PolicyArns : SeqsUpTo(SampleArns, MaxPolicyCount)]]

\* A caller calls req.Validate() or req.Validate(req.ValidateType(types)) on a
\* CreateWorkflow: the v slice is built and handed to validations.Validate.
CreateWorkflow_Validate ==
    /\ vpc = "idle"
    /\ \E req \in CreateWorkflowRequests \cup LengthWorkflowRequests : \E optional \in {<<>>, <<"ValidateType">>} :
          /\ vreq' = req
          /\ vchecks' = CreateWorkflow_Checks(optional)
    /\ vidx' = 1
    /\ vtrace' = <<>>
    /\ verr' = Nil
    /\ vpc' = "running"
    /\ UNCHANGED <<clientVars, envVars>>

\* The type check that CreateTarget.Validate makes before it builds v.
TargetTypeOK(req) == ~(req.Type # "aws_account")

\* A caller calls req.Validate() on a CreateTarget.
CreateTarget_Validate ==
    /\ vpc = "idle"
    /\ \E req \in CreateTargetRequests \cup LengthTargetRequests :
          /\ vreq' = req
          /\ IF ~TargetTypeOK(req)
             THEN vchecks' = <<>> /\ verr' = TargetTypeError /\ vpc' = "done"
             ELSE vchecks' = CreateTarget_Checks /\ verr' = Nil /\ vpc' = "running"
    /\ vidx' = 1
    /\ vtrace' = <<>>
    /\ UNCHANGED <<clientVars, envVars>>

\* A caller calls req.Validate() on a CreateProject: the struct validation
\* alone, with no list of checks.
CreateProject_ValidateCall ==
    /\ vpc = "idle"
    /\ \E req \in CreateProjectRequests :
          /\ vreq' = req
          /\ verr' = CreateProject_Validate(req)
    /\ vchecks' = <<>>
    /\ vidx' = 1
    /\ vtrace' = <<>>
    /\ vpc' = "done"
    /\ UNCHANGED <<clientVars, envVars>>

\* One iteration of the loop of validations.Validate; the return of nil when
\* the checks are exhausted.
Validate ==
    /\ vpc = "running"
    /\ IF vidx > Len(vchecks)
       THEN /\ vpc' = "done"
            /\ verr' = Nil
            /\ UNCHANGED <<vidx, vtrace>>
       ELSE LET err == RunCheck(vchecks[vidx], vreq)
            IN /\ vtrace' = Append(vtrace, [check |-> vchecks[vidx], err |-> err])
               /\ IF err # Nil
                  THEN vpc' = "done" /\ verr' = err /\ UNCHANGED vidx
                  ELSE vpc' = "running" /\ verr' = Nil /\ vidx' = vidx + 1
    /\ UNCHANGED <<vreq, vchecks, clientVars, envVars>>

\* The caller takes the error; it may validate another request.
ValidateReturn ==
    /\ vpc = "done"
    /\ vreq' = NoValidation
    /\ vchecks' = <<>>
    /\ vidx' = 0
    /\ vtrace' = <<>>
    /\ verr' = Nil
    /\ vpc' = "idle"
    /\ UNCHANGED <<clientVars, envVars>>

NextV ==
    \/ CreateWorkflow_Validate
    \/ CreateTarget_Validate
    \/ CreateProject_ValidateCall
    \/ Validate
    \/ ValidateReturn

SpecV == Init /\ [][NextV]_vars

(***************************************************************************)
(* GetEnv: concurrent calls on the package's once, instance and err.       *)
(***************************************************************************)
Goto(g, pc) == [goroutines EXCEPT ![g].pc = pc]

\* os.Setenv / os.Unsetenv, by the process or before its start.
Setenv ==
    /\ \E env \in Environments \ {environ} : environ' = env
    /\ UNCHANGED <<instance, envErr, once, goroutines, processed, readEnviron, returned>>
    /\ UNCHANGED <<clientVars, validationVars>>

\* A goroutine calls GetEnv, for the first time or again.
GetEnv_Call(g) ==
    /\ goroutines[g].pc \in {"idle", "done"}
    /\ goroutines' = Goto(g, "fast")
    /\ UNCHANGED <<environ, instance, envErr, once, processed, readEnviron, returned>>
    /\ UNCHANGED <<clientVars, validationVars>>

\* once.Do, fast path: done is loaded; Do returns when it is set.
Once_Do(g) ==
    /\ goroutines[g].pc = "fast"
    /\ goroutines' = Goto(g, IF OnceNotDone(once) THEN "lock" ELSE "return")
    /\ UNCHANGED <<environ, instance, envErr, once, processed, readEnviron, returned>>
    /\ UNCHANGED <<clientVars, validationVars>>

\* doSlow: o.m.Lock().
Once_Lock(g) ==
    /\ goroutines[g].pc = "lock"
    /\ once.m = "unlocked"
    /\ once' = [once EXCEPT !.m = g]
    /\ goroutines' = Goto(g, "slow")
    /\ UNCHANGED <<environ, instance, envErr, processed, readEnviron, returned>>
    /\ UNCHANGED <<clientVars, validationVars>>

\* doSlow: done is loaded again under the mutex; f runs only when it is unset.
Once_doSlow(g) ==
    /\ goroutines[g].pc = "slow"
    /\ goroutines' = Goto(g, IF OnceNotDone(once) THEN "process" ELSE "unlock")
    /\ UNCHANGED <<environ, instance, envErr, once, processed, readEnviron, returned>>
    /\ UNCHANGED <<clientVars, validationVars>>

\* f: err = envconfig.Process(appPrefix, &instance); return when it failed.
GetEnv_Process(g) ==
    /\ goroutines[g].pc = "process"
    /\ LET out == Process(environ, instance)
       IN /\ instance' = out.spec
          /\ envErr' = out.err
          /\ goroutines' = Goto(g, IF out.err # Nil THEN "store" ELSE "validate")
    /\ processed' = IF processed < 2 THEN processed + 1 ELSE processed
    /\ readEnviron' = environ
    /\ UNCHANGED <<environ, once, returned>>
    /\ UNCHANGED <<clientVars, validationVars>>

\* f: err = instance.validate().
GetEnv_validate(g) ==
    /\ goroutines[g].pc = "validate"
    /\ envErr' = validate(instance)
    /\ goroutines' = Goto(g, "store")
    /\ UNCHANGED <<environ, instance, once, processed, readEnviron, returned>>
    /\ UNCHANGED <<clientVars, validationVars>>

\* doSlow: the deferred o.done.Store(1), after f has returned.
Once_Store(g) ==
    /\ goroutines[g].pc = "store"
    /\ once' = [once EXCEPT !.done = TRUE]
    /\ goroutines' = Goto(g, "unlock")
    /\ UNCHANGED <<environ, instance, envErr, processed, readEnviron, returned>>
    /\ UNCHANGED <<clientVars, validationVars>>

\* doSlow: the deferred o.m.Unlock().
Once_Unlock(g) ==
    /\ goroutines[g].pc = "unlock"
    /\ once' = [once EXCEPT !.m = "unlocked"]
    /\ goroutines' = Goto(g, "return")
    /\ UNCHANGED <<environ, instance, envErr, processed, readEnviron, returned>>
    /\ UNCHANGED <<clientVars, validationVars>>

\* return instance, err.
GetEnv_Return(g) ==
    /\ goroutines[g].pc = "return"
    /\ goroutines' = [goroutines EXCEPT ![g] = [pc |-> "done", vars |-> instance, err |-> envErr]]
    /\ returned' = returned \cup {<<instance, envErr>>}
    /\ UNCHANGED <<environ, instance, envErr, once, processed, readEnviron>>
    /\ UNCHANGED <<clientVars, validationVars>>

NextE ==
    \/ Setenv
    \/ \E g \in Goroutines :
          \/ GetEnv_Call(g)
          \/ Once_Do(g)
          \/ Once_Lock(g)
          \/ Once_doSlow(g)
          \/ GetEnv_Process(g)
          \/ GetEnv_validate(g)
          \/ Once_Store(g)
          \/ Once_Unlock(g)
          \/ GetEnv_Return(g)

SpecE == Init /\ [][NextE]_vars

(***************************************************************************)
(* Properties of the operation client (specification Spec).                *)
(***************************************************************************)
Finished(c) == calls[c].pc = "done"

\* A response was received: the transport answered with a status.
Responded(c) == calls[c].status # NoCode

\* The success range of each operation, as the spec states it.
InSuccessRange(op, status) ==
    IF op \in {"Diff", "Sync", "ExecuteWorkflow"} THEN status \in 200..299 ELSE status = 200

\* A TargetOperationInput the validation must refuse.
BadTargetInput(input) ==
    \/ input.path = <<>>
    \/ input.sha = <<>>
    \/ \E i \in 1..Len(input.sha) : input.sha[i] \notin Letters \cup Digits

\* C1: a Diff or Sync call validates its request before anything is sent: a
\* call whose input has an empty path, an empty sha or a non-alphanumeric sha
\* ends with the validation error, with no request built and none issued on
\* the transport; a request is built or issued only for an input that passed.
C1_ValidatedBeforeSend ==
    \A c \in Callers :
        calls[c].op \in TargetOps =>
            /\ (BadTargetInput(calls[c].input) /\ calls[c].pc # "validate") =>
                  /\ Finished(c)
                  /\ calls[c].err.kind = "struct"
                  /\ calls[c].resp = ZeroResponse
                  /\ calls[c].sent = 0
                  /\ calls[c].req = NoRequest
            /\ (calls[c].sent > 0 \/ calls[c].req # NoRequest) => ~BadTargetInput(calls[c].input)

\* C1 witness: a Sync call with a non-alphanumeric sha has ended with the
\* validation error and nothing sent, while a Diff call has sent its request.
C1_Witness ==
    \E c, d \in Callers :
        /\ calls[c].op = "Sync" /\ Finished(c) /\ calls[c].err.kind = "struct"
        /\ calls[c].input.path # <<>> /\ calls[c].input.sha # <<>>
        /\ calls[c].sent = 0
        /\ calls[d].op = "Diff" /\ calls[d].sent = 1

\* C3 as stated: whenever a response with a status outside the success range
\* was received, the call fails with an unexpected-status error that carries
\* the status code and the response body, whatever happens while the response
\* is read.
C3_UnexpectedStatusAlways ==
    \A c \in Callers :
        (Finished(c) /\ Responded(c) /\ ~InSuccessRange(calls[c].op, calls[c].status)) =>
            /\ calls[c].err.kind = "unexpected_status"
            /\ calls[c].err.code = calls[c].status
            /\ calls[c].err.body # NoBody

\* C3 amended: for a response with a status outside the success range, (a) the
\* six buffering operations fail with an unexpected-status error carrying the
\* code and the body when the body was read in full, and with a body-read error
\* carrying the code only when reading the body failed; (b) StreamLogs fails
\* with an unexpected-status error carrying the code and no body.
C3_UnexpectedStatusAfterRead ==
    \A c \in Callers :
        (Finished(c) /\ Responded(c) /\ ~InSuccessRange(calls[c].op, calls[c].status)) =>
            /\ calls[c].resp = ZeroResponse
            /\ IF calls[c].op = "StreamLogs"
               THEN calls[c].err = [kind |-> "unexpected_status", code |-> calls[c].status,
                                    body |-> NoBody, msgs |-> <<>>]
               ELSE IF calls[c].readEnd = "error"
               THEN calls[c].err = [kind |-> "read_body", code |-> calls[c].status,
                                    body |-> NoBody, msgs |-> <<>>]
               ELSE /\ calls[c].body \in Bodies
                    /\ calls[c].err = [kind |-> "unexpected_status", code |-> calls[c].status,
                                       body |-> calls[c].body, msgs |-> <<>>]

\* C3 witness: a GetLogs call that received 404 and read the body has failed
\* with the unexpected-status error carrying 404 and that body.
C3_Witness ==
    \E c \in Callers :
        /\ calls[c].op = "GetLogs" /\ Finished(c) /\ calls[c].status = 404
        /\ calls[c].err.kind = "unexpected_status"
        /\ calls[c].err.body = <<"oops">>

\* The body decodes into the response type of the operation.
Decodable(op, body) ==
    body = IF op = "GetWorkflows" THEN <<"[", "wf-1", "]">> ELSE <<"{", "wf-1", "}">>

\* C4: a response is decoded and returned only for a status in the success
\* range of the operation (200 for the read operations, 200..299 for the write
\* operations); outside it the body is never decoded and the call never
\* succeeds; inside it, a body that does not decode gives the malformed-response
\* error and no response.
C4_DecodeOnlyOnSuccess ==
    \A c \in Callers :
        /\ calls[c].pc = "decode" => InSuccessRange(calls[c].op, calls[c].status)
        /\ (Finished(c) /\ Responded(c) /\ calls[c].err = Nil) =>
              InSuccessRange(calls[c].op, calls[c].status)
        /\ (Finished(c) /\ calls[c].resp # ZeroResponse) =>
              /\ calls[c].err = Nil
              /\ InSuccessRange(calls[c].op, calls[c].status)
              /\ Decodable(calls[c].op, calls[c].body)
              /\ calls[c].resp = <<"wf-1">>
        /\ (Finished(c) /\ Responded(c) /\ calls[c].op # "StreamLogs"
               /\ calls[c].readEnd = "eof"
               /\ InSuccessRange(calls[c].op, calls[c].status)) =>
              IF Decodable(calls[c].op, calls[c].body)
              THEN calls[c].err = Nil /\ calls[c].resp = <<"wf-1">>
              ELSE calls[c].err.kind = "parse" /\ calls[c].resp = ZeroResponse

\* C4 witness: an ExecuteWorkflow call answered 299 has returned the decoded
\* response, and a GetWorkflows call answered 200 with a JSON object has
\* failed with the malformed-response error.
C4_Witness ==
    \E c, d \in Callers :
        /\ calls[c].op = "ExecuteWorkflow" /\ Finished(c) /\ calls[c].status = 299
        /\ calls[c].resp = <<"wf-1">>
        /\ calls[d].op = "GetWorkflows" /\ Finished(d) /\ calls[d].status = 200
        /\ calls[d].err.kind = "parse"

\* C5 as stated: every request issued for an operation other than
\* GetWorkflowStatus and GetWorkflows carries the Authorization header with the
\* client's token.
C5_AuthOnAllButTwo ==
    \A c \in Callers :
        (calls[c].sent > 0 /\ calls[c].op \notin {"GetWorkflowStatus", "GetWorkflows"}) =>
            calls[c].req.auth = client.authToken

\* C5 amended: every request issued by Diff, Sync and ExecuteWorkflow carries
\* the Authorization header equal to the client's token verbatim; the requests
\* of GetWorkflowStatus, GetWorkflows, GetLogs and StreamLogs carry no
\* Authorization header.
C5_AuthOnWrites ==
    \A c \in Callers :
        calls[c].sent > 0 =>
            IF calls[c].op \in {"Diff", "Sync", "ExecuteWorkflow"}
            THEN calls[c].req.auth = AuthToken /\ calls[c].req.auth = client.authToken
            ELSE calls[c].req.auth = NoHeader

\* C5 witness: a Diff request and a StreamLogs request have both been issued.
C5_Witness ==
    \E c, d \in Callers :
        /\ calls[c].op = "Diff" /\ calls[c].sent = 1 /\ calls[c].req.auth = AuthToken
        /\ calls[d].op = "StreamLogs" /\ calls[d].sent = 1

\* C6: StreamLogs.  While and after the body of a 200 response is copied, the
\* sink holds exactly the chunks the transport delivered, in order; when the
\* transport then closes the body the call returns nil; when the status is not
\* 200 the sink holds nothing and the call fails with the unexpected-status
\* error; when the body read fails after a 200 status the chunks written stay
\* in the sink and the call fails with the body-read error, not a status error.
C6_StreamLogs ==
    \A c \in Callers :
        (calls[c].op = "StreamLogs" /\ Responded(c)) =>
            /\ calls[c].status = 200 => calls[c].sink = calls[c].body
            /\ (Finished(c) /\ calls[c].status = 200 /\ calls[c].readEnd = "eof") =>
                  calls[c].err = Nil
            /\ calls[c].status # 200 =>
                  /\ calls[c].sink = <<>>
                  /\ calls[c].pc \in {"status", "done"}
                  /\ Finished(c) => calls[c].err.kind = "unexpected_status"
            /\ (Finished(c) /\ calls[c].status = 200 /\ calls[c].readEnd = "error") =>
                  calls[c].err.kind = "read_body"

\* C6 witness: one StreamLogs call has returned nil with MaxBody chunks in the
\* sink, and another has failed mid-stream with one chunk in the sink.
C6_Witness ==
    \E c, d \in Callers :
        /\ calls[c].op = "StreamLogs" /\ Finished(c) /\ calls[c].err = Nil
        /\ Len(calls[c].sink) = MaxBody /\ calls[c].sink[1] # calls[c].sink[2]
        /\ calls[d].op = "StreamLogs" /\ Finished(d) /\ calls[d].err.kind = "read_body"
        /\ Len(calls[d].sink) = 1

\* C7: no call issues more than one request on the transport, and an error
\* ends the call: an error is only ever held by a finished call, a call that
\* failed before the send issued no request, and a finished call takes no
\* further step but its return to the caller.
C7_NoRetry ==
    /\ [](\A c \in Callers :
             /\ calls[c].sent <= 1
             /\ calls[c].err # Nil => Finished(c)
             /\ calls[c].err.kind \in {"struct", "create_request"} => calls[c].sent = 0
             /\ calls[c].err.kind \in {"api_call", "read_body", "unexpected_status", "parse"}
                   => calls[c].sent = 1)
    /\ [][\A c \in Callers : Finished(c) => calls'[c] \in {calls[c], IdleCall}]_vars

\* C7 witness: a call has failed on the transport after its one request, and
\* another has failed to decode the body of its one request.
C7_Witness ==
    \E c, d \in Callers :
        /\ Finished(c) /\ calls[c].err.kind = "api_call" /\ calls[c].sent = 1
        /\ Finished(d) /\ calls[d].err.kind = "parse" /\ calls[d].sent = 1

\* The kind of error a call must end with, from its own input and the reply
\* of the transport alone.
ExpectedKind(call) ==
    IF call.op \in TargetOps /\ BadTargetInput(call.input) THEN "struct"
    ELSE IF \/ \E i \in 1..Len(call.input.name) : call.input.name[i] = "\n"
            \/ client.endpoint = BadEndpoint
    THEN "create_request"
    ELSE IF call.status = NoCode THEN "api_call"
    ELSE IF call.op = "StreamLogs"
    THEN IF call.status # 200 THEN "unexpected_status"
         ELSE IF call.readEnd = "error" THEN "read_body" ELSE "nil"
    ELSE IF call.readEnd = "error" THEN "read_body"
    ELSE IF ~InSuccessRange(call.op, call.status) THEN "unexpected_status"
    ELSE IF ~Decodable(call.op, call.body) THEN "parse"
    ELSE "nil"

\* C8: no step of any call changes the client (token, endpoint, transport),
\* and the result of every call is determined by its own input and the reply
\* of the transport, whatever calls ended before it or run beside it.
C8_ClientImmutable ==
    /\ [][client' = client]_vars
    /\ [](/\ client.authToken = AuthToken
          /\ client.endpoint \in {GoodEndpoint, BadEndpoint}
          /\ client.httpClient = "transport")
    /\ [](\A c \in Callers :
             Finished(c) =>
                /\ calls[c].err.kind = ExpectedKind(calls[c])
                /\ calls[c].resp = IF ExpectedKind(calls[c]) = "nil" /\ calls[c].op # "StreamLogs"
                                   THEN <<"wf-1">> ELSE ZeroResponse
                /\ calls[c].sent > 0 => calls[c].req.auth \in {AuthToken, NoHeader})

\* C8 witness: after a call failed and was returned, a Diff call has succeeded
\* while the other caller's call has failed on the transport.
C8_Witness ==
    \E c, d \in Callers :
        /\ failedBefore
        /\ calls[c].op = "Diff" /\ Finished(c) /\ calls[c].err = Nil
        /\ calls[c].req.auth = AuthToken
        /\ Finished(d) /\ calls[d].err.kind = "api_call"

\* The context of the call was cancelled, before the send or during it.
Cancelled(c) == calls[c].ctx \in {"cancelled", "cancelled_in_flight"}

\* The call got past its validation and its url parses: the request is made.
RequestMade(c) ==
    /\ ValidationError(calls[c].op, calls[c].input) = Nil
    /\ URLParses(URL(calls[c].op, calls[c].input, client.endpoint))

\* C12 as stated: a call whose context was cancelled before the send ends with
\* the request-construction error, and a call whose context was cancelled in
\* flight ends with the transport error.
C12_CancelledBeforeSendFailsConstruction ==
    \A c \in Callers :
        Finished(c) /\ ValidationError(calls[c].op, calls[c].input) = Nil =>
            /\ calls[c].ctx = "cancelled" => calls[c].err.kind = "create_request"
            /\ calls[c].ctx = "cancelled_in_flight" => calls[c].err.kind = "api_call"

\* C12 amended: request construction does not look at the context.  A call
\* whose context is cancelled, before the send or in flight, and whose request
\* is made, hands the request to the transport once and ends with the transport
\* error and the zero response; under a context cancelled before the send the
\* request-construction error is returned only for a url that does not parse,
\* as under a live context.
C12_CancellationIsTransportError ==
    \A c \in Callers :
        /\ calls[c].pc \in {"status", "read", "decode", "copy"} => ~Cancelled(c)
        /\ Finished(c) /\ Cancelled(c) =>
              /\ calls[c].err # Nil
              /\ calls[c].resp = ZeroResponse
              /\ calls[c].status = NoCode
              /\ RequestMade(c) => calls[c].err.kind = "api_call" /\ calls[c].sent = 1
              /\ calls[c].err.kind = "create_request" <=>
                    /\ ValidationError(calls[c].op, calls[c].input) = Nil
                    /\ ~URLParses(URL(calls[c].op, calls[c].input, client.endpoint))
              /\ calls[c].ctx = "cancelled_in_flight" => RequestMade(c)

\* C12 witness: one call with a context cancelled before the send and another
\* with a context cancelled in flight have both ended with the transport error.
C12_Witness ==
    \E c, d \in Callers :
        /\ Finished(c) /\ calls[c].ctx = "cancelled" /\ calls[c].err.kind = "api_call"
        /\ calls[c].op = "Diff" /\ calls[c].sent = 1
        /\ Finished(d) /\ calls[d].ctx = "cancelled_in_flight" /\ calls[d].err.kind = "api_call"

\* The operations that return a response.
ResponseOps == Ops \ {"StreamLogs"}

\* C13: a finished call of a response-returning operation has either no error
\* and the response decoded from the whole body of a successful reply, or an
\* error and the zero response; never an error with data of the reply.
C13_NoPartialSuccess ==
    \A c \in Callers :
        Finished(c) /\ calls[c].op \in ResponseOps =>
            \/ /\ calls[c].err = Nil
               /\ Responded(c) /\ SuccessStatus(calls[c].op, calls[c].status)
               /\ Unmarshal(calls[c].op, calls[c].body).ok
               /\ calls[c].resp = Unmarshal(calls[c].op, calls[c].body).value
            \/ /\ calls[c].err # Nil
               /\ calls[c].resp = ZeroResponse

\* C13 witness: a call has returned its decoded response without error, and
\* another has returned the zero response with a parse error although a part
\* of the reply had been decoded.
C13_Witness ==
    \E c, d \in Callers :
        /\ Finished(c) /\ calls[c].op \in ResponseOps /\ calls[c].err = Nil
        /\ calls[c].resp # ZeroResponse
        /\ Finished(d) /\ calls[d].op \in ResponseOps /\ calls[d].err.kind = "parse"
        /\ Unmarshal(calls[d].op, calls[d].body).value # ZeroResponse
        /\ calls[d].resp = ZeroResponse

\* The workflow validation would refuse the payload.
RejectedByCreateWorkflow(payload) ==
    validateArguments(payload) # Nil \/ validateParameters(payload) # Nil

\* C14: ExecuteWorkflow validates nothing.  A call never ends with a
\* validation error; once past request construction its request is the POST
\* to endpoint/workflows with the serialised input as body, whatever the input,
\* and a finished call has handed it to the transport once; a finished call
\* that sent nothing ended with the request-construction error, on a url that
\* does not parse.
C14_ExecuteWorkflowNoValidation ==
    \A c \in Callers :
        calls[c].op = "ExecuteWorkflow" =>
            LET call == calls[c]
                url == client.endpoint \o Slash \o SegWorkflows
            IN /\ call.err # Nil => call.err.kind # "struct"
               /\ call.pc \notin {"validate", "build"} =>
                     IF URLParses(url)
                     THEN /\ call.req = [method |-> "POST", url |-> url, auth |-> client.authToken,
                                         body |-> RequestBody("ExecuteWorkflow", call.input)]
                          /\ Finished(c) => call.sent = 1
                     ELSE /\ Finished(c) /\ call.sent = 0 /\ call.req = NoRequest
                          /\ call.err.kind = "create_request"

\* C14 witness: an ExecuteWorkflow call whose payload the workflow validation
\* would refuse has sent it and ended, while a Diff call with an empty path
\* has ended with the validation error and nothing sent.
C14_Witness ==
    \E c, d \in Callers :
        /\ calls[c].op = "ExecuteWorkflow" /\ Finished(c) /\ calls[c].sent = 1
        /\ RejectedByCreateWorkflow(calls[c].input.payload)
        /\ calls[c].req.body = RequestBody("ExecuteWorkflow", calls[c].input)
        /\ calls[c].err = Nil
        /\ calls[d].op = "Diff" /\ Finished(d) /\ calls[d].input.path = <<>>
        /\ calls[d].err.kind = "struct" /\ calls[d].sent = 0

\* C14 second witness: an ExecuteWorkflow call that could not construct its
\* request has ended with nothing sent.
C14_WitnessNoSend ==
    \E c \in Callers :
        /\ calls[c].op = "ExecuteWorkflow" /\ Finished(c) /\ calls[c].sent = 0
        /\ calls[c].err.kind = "create_request"

(***************************************************************************)
(* Properties of the request validation (specification SpecV).             *)
(***************************************************************************)
\* The first error of a sequence of errors, nil when there is none.
FirstError(errs) ==
    IF \A i \in 1..Len(errs) : errs[i] = Nil THEN Nil
    ELSE errs[CHOOSE i \in 1..Len(errs) : errs[i] # Nil /\ \A j \in 1..(i - 1) : errs[j] = Nil]

\* C2: validateArguments accepts the Arguments map if and only if the map is
\* empty or its key set is exactly {execute, init}.
C2_ArgumentsExactKeySet ==
    \A i \in 1..Len(vtrace) :
        vtrace[i].check = "validateArguments" =>
            (vtrace[i].err = Nil <=>
                (DOMAIN vreq.Arguments = {} \/ DOMAIN vreq.Arguments = {"execute", "init"}))

\* C9: validations.Validate runs the checks in the order given and stops at
\* the first error: the checks run are a prefix of the list, only the last one
\* run can have failed, the error returned is that of the first failing check,
\* and nil is returned only when every check ran and passed.  For
\* CreateWorkflow the list is struct constraints, arguments, parameters, then
\* the caller's optional checks, so the error is the earliest stage's.
C9_PipelineOrder ==
    /\ Len(vtrace) <= Len(vchecks)
    /\ \A i \in 1..Len(vtrace) :
          /\ vtrace[i].check = vchecks[i]
          /\ i < Len(vtrace) => vtrace[i].err = Nil
    /\ (vpc = "running" /\ vtrace # <<>>) => vtrace[Len(vtrace)].err = Nil
    /\ (vpc = "done" /\ vchecks # <<>>) =>
          /\ verr = Nil <=>
                (Len(vtrace) = Len(vchecks) /\ \A i \in 1..Len(vtrace) : vtrace[i].err = Nil)
          /\ verr # Nil => verr = vtrace[Len(vtrace)].err
    /\ (vpc # "idle" /\ vreq.kind = "CreateWorkflow") =>
          /\ \E optional \in {<<>>, <<"ValidateType">>} :
                vchecks = <<"ValidateStruct", "validateArguments", "validateParameters">>
                             \o optional
          /\ vpc = "done" =>
                verr = FirstError(
                          <<CreateWorkflow_ValidateStruct(vreq), validateArguments(vreq),
                            validateParameters(vreq)>>
                          \o (IF Len(vchecks) = 4 THEN <<ValidateType(vreq, AllowedTypes)>>
                              ELSE <<>>))

\* C9 witness: a CreateWorkflow request whose arguments, parameters and type
\* are all bad has been rejected with the arguments error after two checks.
C9_Witness ==
    /\ vpc = "done" /\ vreq.kind = "CreateWorkflow"
    /\ Len(vchecks) = 4 /\ Len(vtrace) = 2
    /\ verr = ArgumentsError
    /\ validateParameters(vreq) # Nil
    /\ vreq.Type = "bogus"

\* The name of a CreateTarget fails its constraints: required, a letter first
\* then letters, digits and underscores, 4 to 32 characters.
BadTargetName(name) ==
    \/ name = <<>>
    \/ name[1] \notin Letters
    \/ \E i \in 1..Len(name) : name[i] \notin Letters \cup Digits \cup {"_"}
    \/ Len(name) < 4
    \/ Len(name) > 32

\* The stage at which a CreateTarget request must be rejected, "none" when it
\* is valid: the stages in the order type, struct, credential type, role ARN,
\* policy ARN count, policy ARNs.
ExpectedTargetStage(req) ==
    IF req.Type # "aws_account" THEN "type"
    ELSE IF BadTargetName(req.Name) THEN "struct"
    ELSE IF req.Properties.CredentialType # "vault" THEN "credential_type"
    ELSE IF req.Properties.RoleArn # ValidArn THEN "role_arn"
    ELSE IF Len(req.Properties.PolicyArns) > 5 THEN "count"
    ELSE IF \E i \in 1..Len(req.Properties.PolicyArns) : req.Properties.PolicyArns[i] # ValidArn
    THEN "policy_arn"
    ELSE "none"

\* The stage an error of CreateTarget.Validate belongs to.
StageOf(err) ==
    IF err = Nil THEN "none"
    ELSE IF err.kind = "struct" THEN "struct"
    ELSE IF err.msgs = <<"type must be one of 'aws_account'">> THEN "type"
    ELSE IF err.msgs = <<"credential_type must be one of 'vault'">> THEN "credential_type"
    ELSE IF err.msgs = <<"role_arn must be a valid arn">> THEN "role_arn"
    ELSE IF err.msgs = <<"policy_arns cannot be more than 5">> THEN "count"
    ELSE IF err.msgs = <<"policy_arns contains an invalid arn">> THEN "policy_arn"
    ELSE "other"

\* C10: CreateTarget.Validate reports the first failing check in the order
\* type, struct constraints, credential type, role ARN, policy ARN count, policy
\* ARN syntax; a request whose type is not aws_account is rejected with the
\* type error before any check of the list runs; a request with more than 5
\* policy ARNs is rejected whatever the ARNs are.
C10_CreateTargetOrder ==
    (vpc = "done" /\ vreq.kind = "CreateTarget") =>
        /\ StageOf(verr) = ExpectedTargetStage(vreq)
        /\ vreq.Type # "aws_account" => (verr = TargetTypeError /\ vtrace = <<>>)
        /\ Len(vreq.Properties.PolicyArns) > 5 => verr # Nil

\* C10 witness: a request with 6 valid policy ARNs and all else valid has been
\* rejected for the count.
C10_Witness ==
    /\ vpc = "done" /\ vreq.kind = "CreateTarget"
    /\ Len(vreq.Properties.PolicyArns) = 6
    /\ \A i \in 1..6 : vreq.Properties.PolicyArns[i] = ValidArn
    /\ verr = ErrorsNew("policy_arns cannot be more than 5")
    /\ Len(vtrace) = 2

\* C11: validateParameters accepts the Parameters map if and only if it has
\* execute_container_image_uri with a valid image URI and, when it has
\* pre_container_image_uri, that value is a valid image URI too; a map without
\* execute_container_image_uri gets the "is required" error whatever its other
\* values are, an invalid execute URI is rejected, and a valid execute URI
\* with an invalid pre URI is rejected.
C11_ParametersValidation ==
    \A i \in 1..Len(vtrace) :
        vtrace[i].check = "validateParameters" =>
            LET params == vreq.Parameters
                hasExecute == "execute_container_image_uri" \in DOMAIN params
                hasPre == "pre_container_image_uri" \in DOMAIN params
            IN /\ vtrace[i].err = Nil <=>
                     /\ hasExecute /\ params["execute_container_image_uri"] = GoodImage
                     /\ hasPre => params["pre_container_image_uri"] = GoodImage
               /\ ~hasExecute =>
                     vtrace[i].err.msgs = <<"parameter execute_container_image_uri is required">>
               /\ (hasExecute /\ params["execute_container_image_uri"] # GoodImage) =>
                     vtrace[i].err.msgs =
                        <<"parameter execute_container_image_uri must be a valid container uri">>
               /\ (hasExecute /\ params["execute_container_image_uri"] = GoodImage
                      /\ hasPre /\ params["pre_container_image_uri"] # GoodImage) =>
                     vtrace[i].err.msgs =
                        <<"parameter pre_container_image_uri must be a valid container uri">>

\* C11 witness: validateParameters has rejected a map with a valid execute URI
\* and an invalid pre URI.
C11_Witness ==
    /\ vpc = "done" /\ vreq.kind = "CreateWorkflow"
    /\ Len(vtrace) = 3 /\ vtrace[3].check = "validateParameters"
    /\ DOMAIN vreq.Parameters = ParameterKeys
    /\ vreq.Parameters["execute_container_image_uri"] = GoodImage
    /\ vreq.Parameters["pre_container_image_uri"] = UpperImage
    /\ verr # Nil

\* The length of the name is within the configured range.
InNameRange(name) == Len(name) >= 4 /\ Len(name) <= 32

\* C15 as stated: CreateProject.Validate rejects every name whose length is
\* outside 4..32, CreateWorkflow.Validate every project_name and target_name
\* whose length is outside 4..32, as CreateTarget.Validate does for its name.
C15_LengthRangeEnforced ==
    vpc = "done" =>
        /\ (vreq.kind = "CreateProject" /\ ~InNameRange(vreq.Name)) => verr # Nil
        /\ (vreq.kind = "CreateWorkflow" /\ ~InNameRange(vreq.ProjectName)) => verr # Nil
        /\ (vreq.kind = "CreateWorkflow" /\ ~InNameRange(vreq.TargetName)) => verr # Nil
        /\ (vreq.kind = "CreateTarget" /\ ~InNameRange(vreq.Name)) => verr # Nil

(***************************************************************************)
(* Properties of GetEnv (specification SpecE).                             *)
(***************************************************************************)
\* The Vars and the error GetEnv must give for the environment that was read.
ExpectedVars(env) ==
    [AdminSecret |-> IF env.AdminSecret = Unset THEN <<>> ELSE env.AdminSecret,
     Others |-> env.AdminSecret # Unset /\ env.Others]

ExpectedErr(env) ==
    IF env.AdminSecret = Unset
    THEN ErrorsNew("required key ARGO_CLOUDOPS_ADMIN_SECRET missing value")
    ELSE IF ~env.Others THEN ErrorsNew("required key VAULT_ROLE missing value")
    ELSE IF Len(env.AdminSecret) < 16
    THEN ErrorsNew("admin secret must be at least 16 characers long")
    ELSE Nil

\* The goroutines inside the function given to once.Do, or about to mark it done.
Initialising == {g \in Goroutines : goroutines[g].pc \in {"process", "validate", "store"}}

\* C16: under every interleaving of GetEnv calls the environment is processed
\* at most once and by one goroutine at a time; a call returns only after the
\* initialisation has completed; from then on instance and err are those of
\* the environment read by that one initialisation, whatever the environment
\* has become, and every call, the calls after a failed initialisation
\* included, has returned that same pair.
C16_GetEnvOnce ==
    /\ processed <= 1
    /\ Cardinality(Initialising) <= 1
    /\ \A g \in Goroutines :
          goroutines[g].pc \in {"return", "done"} => (once.done /\ Initialising = {})
    /\ once.done =>
          /\ processed = 1
          /\ instance = ExpectedVars(readEnviron)
          /\ envErr = ExpectedErr(readEnviron)
    /\ returned \subseteq {<<ExpectedVars(readEnviron), ExpectedErr(readEnviron)>>}
    /\ \A g \in Goroutines :
          goroutines[g].pc = "done" =>
             /\ goroutines[g].vars = ExpectedVars(readEnviron)
             /\ goroutines[g].err = ExpectedErr(readEnviron)

\* C16 witness: the one initialisation failed on a short admin secret, the
\* environment has since been set right, and every goroutine's call has
\* returned the Vars and the error of that initialisation.
C16_Witness ==
    /\ processed = 1
    /\ envErr = ErrorsNew("admin secret must be at least 16 characers long")
    /\ environ # readEnviron /\ ExpectedErr(environ) = Nil
    /\ \A g \in Goroutines : goroutines[g].pc = "done" /\ goroutines[g].err = envErr
    /\ returned = {<<instance, envErr>>}

=============================================================================
